---- MODULE Spec2Model ----
(***************************************************************************)
(* A model of @leapfrogtechnology/db-model: the model facade (model.ts),   *)
(* the query executor (db.ts) and the pagination helpers                   *)
(* (utils/pagination.ts, utils/paginator.ts).                              *)
(*                                                                         *)
(* Six specifications share the module:                                    *)
(*   Spec      the facade and the executor: one action per operation,      *)
(*             each leaving a record of the call in `call`;                *)
(*   SpecPage  the pagination engine: the raw-text strategy as a process   *)
(*             that suspends at its two awaits, and the builder helpers;   *)
(*   SpecData  the data of an executor call: the keys and values that      *)
(*             reach the connection and the rows handed back;              *)
(*   SpecObject   the object utilities (utils/object.ts) on whole values;  *)
(*   SpecBatch    batchUpdateViaQuery as a process that suspends at its    *)
(*                await, under weak fairness of its steps;                 *)
(*   SpecClasses  model classes extending base models, and their bindings. *)
(***************************************************************************)
EXTENDS Integers, Sequences, FiniteSets, TLC

\* JavaScript's undefined, for a connection, a transaction or a callback.
None == "none"
\* A nullable value: null is the empty set, the value v is {v}.
Null == {}
Some(v) == {v}

\* The connections a caller may bind or a resolver may return.
Conns == {"c1", "c2"}
\* The transactions a caller may pass.
Trxs == {"t1"}
\* The resolver is invoked at most MaxCalls times in a behaviour.
MaxCalls == 2
\* Row ids are 1..MaxId; the id 0 stands for "the call takes no id".
MaxId == 2
Ids == 1..MaxId

\* Error('Cannot resolve the database connection.')
ConnectionUnresolved == "ConnectionUnresolved"
ModelNotFound == "ModelNotFoundError"

VARIABLES
    resolver,       \* createBaseModel(resolver?): TRUE when a resolver was given
    connection,     \* BaseModel.connection, None while nothing is bound
    boundArg,       \* history: the argument of the latest bindConnection / bind
    resolverCalls,  \* history: how often the resolver has been invoked
    resolved,       \* history: what the latest invocation of the resolver returned
    table,          \* the ids of the rows the table holds
    call,           \* the latest call and what it did
    pg,             \* the pagination call in progress, and its log
    dx,             \* the executor call whose data is followed
    ob,             \* the value the object utilities are applied to
    bu,             \* the batchUpdateViaQuery call in progress, and its log
    cls             \* the model classes: their own bindings, and the latest call

facadeVars ==
    <<resolver, connection, boundArg, resolverCalls, resolved, table, call>>

----------------------------------------------------------------------------
(* model.ts: the binding and the resolution of the connection              *)

\* bindConnection(connection): this.connection = connection
BindConnectionField(conn, c) == c

\* A getConnection() that asks the resolver first and only then the binding.
GetConnectionResolverFirst(conn, hasResolver, fresh) ==
    IF hasResolver
        THEN [value |-> fresh, viaResolver |-> TRUE, connection |-> conn]
        ELSE IF conn # None
            THEN [value |-> conn, viaResolver |-> FALSE, connection |-> conn]
            ELSE [value |-> ConnectionUnresolved, viaResolver |-> FALSE,
                  connection |-> conn]

\* A getConnection() that keeps what the resolver returned as the binding.
GetConnectionCaching(conn, hasResolver, fresh) ==
    IF conn # None
        THEN [value |-> conn, viaResolver |-> FALSE, connection |-> conn]
        ELSE IF hasResolver
            THEN [value |-> fresh, viaResolver |-> TRUE, connection |-> fresh]
            ELSE [value |-> ConnectionUnresolved, viaResolver |-> FALSE,
                  connection |-> conn]

\* A getConnection() that returns undefined where nothing resolves.
GetConnectionNoThrow(conn, hasResolver, fresh) ==
    IF conn # None
        THEN [value |-> conn, viaResolver |-> FALSE, connection |-> conn]
        ELSE IF hasResolver
            THEN [value |-> fresh, viaResolver |-> TRUE, connection |-> conn]
            ELSE [value |-> None, viaResolver |-> FALSE, connection |-> conn]

\* getConnection(): the bound connection if there is one, else what a fresh
\* invocation of the resolver returns (`fresh`), else the error.  `connection`
\* is the static field after the call: the method assigns nothing.
GetConnection(conn, hasResolver, fresh) ==
    IF conn # None
        THEN [value |-> conn, viaResolver |-> FALSE, connection |-> conn]
        ELSE IF hasResolver
            THEN [value |-> fresh, viaResolver |-> TRUE, connection |-> conn]
            ELSE [value |-> ConnectionUnresolved, viaResolver |-> FALSE,
                  connection |-> conn]

----------------------------------------------------------------------------
(* db.ts: the executor.  A statement is the execution context it runs on   *)
(* and what it does; an executor function is the statements it issues, in  *)
(* the order it issues them.                                               *)

Stmt(ctx, kind) == [ctx |-> ctx, kind |-> kind]

\* queryBuilder(connection, trx): trx || connection
QueryBuilder(conn, trx) == IF trx # None THEN trx ELSE conn

\* withTimestamp(connection, table, params): connection.schema.hasColumn(...)
WithTimestampStmts(conn) == <<Stmt(conn, "hasColumn")>>

\* find(connection, table, params, callback, trx)
DbFind(conn, callback, trx) == <<Stmt(QueryBuilder(conn, trx), "select")>>

\* findFirst(connection, table, params, callback, trx)
DbFindFirst(conn, callback, trx) ==
    <<Stmt(QueryBuilder(conn, trx), "selectFirst")>>

\* insert(connection, table, data, trx)
DbInsert(conn, trx) == <<Stmt(QueryBuilder(conn, trx), "insert")>>

\* update(connection, table, where, params, trx)
DbUpdate(conn, trx) ==
    WithTimestampStmts(conn) \o <<Stmt(QueryBuilder(conn, trx), "update")>>

\* remove(connection, table, params, trx)
DbRemove(conn, trx) == <<Stmt(QueryBuilder(conn, trx), "delete")>>

\* query(connection, sql, params, trx)
DbQuery(conn, trx) == <<Stmt(QueryBuilder(conn, trx), "raw")>>

\* batchInsert(connection, table, data, chunkSize, trx)
DbBatchInsert(conn, trx) == <<Stmt(QueryBuilder(conn, trx), "batchInsert")>>

\* getValue(connection, sql, params, trx); check and getJson go through it
DbGetValue(conn, trx) == <<Stmt(QueryBuilder(conn, trx), "raw")>>

\* invoke(connection, objectName, params): query(connection, sql, params)
DbInvoke(conn) == DbQuery(conn, None)

\* exec(connection, objectName, params): query(connection, sql, params)
DbExec(conn) == DbQuery(conn, None)

\* get(connection, table, params, trx): the first matching row, or null
DbGet(conn, trx) == <<Stmt(QueryBuilder(conn, trx), "selectFirst")>>

\* The row a lookup by id finds in the table `t`: null when there is none.
Lookup(t, id) == IF id \in t THEN Some(id) ELSE Null

----------------------------------------------------------------------------
(* model.ts: the facade.  Each operation hands the resolved connection and *)
(* its own arguments to one executor function.                             *)

\* BaseModel.find(params, callback, trx)
ModelFind(conn, callback, trx) == DbFind(conn, callback, trx)

\* BaseModel.findFirst(params, callback, trx): passes ramda's `any` as callback
ModelFindFirst(conn, callback, trx) == DbFindFirst(conn, "any", trx)

\* BaseModel.findById / findByIdOrFail(id, callback, trx)
ModelFindById(conn, callback, trx) == DbFindFirst(conn, callback, trx)

\* BaseModel.findWithPageAndSort(params, pageParams, sortParams, callback, trx):
\* this.find(params, trx), so trx lands in find's callback parameter
ModelFindWithPageAndSort(conn, callback, trx) == ModelFind(conn, trx, None)

\* BaseModel.count(params, callback, trx): this.find(params, trx) again
ModelCount(conn, callback, trx) == ModelFind(conn, trx, None)

\* BaseModel.transaction(callback): this.getConnection().transaction(callback)
ModelTransaction(conn) == <<Stmt(conn, "transaction")>>

\* The facade operations, and those among them that take a transaction.
FacadeOps ==
    {"getConnection", "queryBuilder", "find", "findFirst", "findById",
     "findByIdOrFail", "findWithPageAndSort", "count", "insert", "updateById",
     "update", "deleteById", "delete", "query", "transaction", "batchInsert",
     "getValue", "check", "getJson", "invoke", "exec"}
TrxOps == FacadeOps \ {"getConnection", "transaction"}
BindOps == {"bindConnection", "bind"}

\* A facade in which a transaction stands in for the connection everywhere.
ResolvesConnectionUnlessTrx(op, trx) == trx = None

\* invoke/exec: db.invoke(trx || this.getConnection(), ...); every other
\* operation evaluates this.getConnection() whatever trx is.
ResolvesConnection(op, trx) == ~(op \in {"invoke", "exec"} /\ trx # None)

\* Only findFirst is declared async: an error thrown in its body rejects the
\* promise it returns instead of propagating to the caller.
IsAsync(op) == op = "findFirst"

\* The statements a facade operation issues, given the connection it resolved.
FacadeStmts(op, conn, callback, trx) ==
    CASE op \in {"getConnection", "queryBuilder"} -> <<>>
      [] op = "find" -> ModelFind(conn, callback, trx)
      [] op = "findFirst" -> ModelFindFirst(conn, callback, trx)
      [] op \in {"findById", "findByIdOrFail"} -> ModelFindById(conn, callback, trx)
      [] op = "findWithPageAndSort" -> ModelFindWithPageAndSort(conn, callback, trx)
      [] op = "count" -> ModelCount(conn, callback, trx)
      [] op = "insert" -> DbInsert(conn, trx)
      [] op \in {"updateById", "update"} -> DbUpdate(conn, trx)
      [] op \in {"deleteById", "delete"} -> DbRemove(conn, trx)
      [] op = "query" -> DbQuery(conn, trx)
      [] op = "transaction" -> ModelTransaction(conn)
      [] op = "batchInsert" -> DbBatchInsert(conn, trx)
      [] op \in {"getValue", "check", "getJson"} -> DbGetValue(conn, trx)
      [] op = "invoke" -> DbInvoke(QueryBuilder(conn, trx))
      [] op = "exec" -> DbExec(QueryBuilder(conn, trx))

\* How a facade lookup by id settles when the id has no row: findById hands
\* back what db.findFirst resolves to; findByIdOrFail throws in its then().
FacadeLookupError(op, row) ==
    IF op = "findByIdOrFail" /\ row = Null THEN ModelNotFound ELSE None

\* One call of a facade operation: the connection is resolved (unless the
\* operation does not ask for it), then the executor function is called.
\* `fresh` is what the resolver returns if this call invokes it.
Facade(op, trx, id, fresh) ==
    LET asks == ResolvesConnection(op, trx)
        gc == GetConnection(connection, resolver, fresh)
        unresolved == asks /\ gc.value = ConnectionUnresolved
        conn == IF asks THEN gc.value ELSE "notcalled"
        row == IF id = 0 THEN Null ELSE Lookup(table, id)
        err == IF unresolved THEN ConnectionUnresolved
               ELSE FacadeLookupError(op, row)
    IN  /\ (asks /\ gc.viaResolver) => resolverCalls < MaxCalls
        /\ connection' = IF asks THEN gc.connection ELSE connection
        /\ resolverCalls' =
              IF asks /\ gc.viaResolver THEN resolverCalls + 1 ELSE resolverCalls
        /\ resolved' = IF asks /\ gc.viaResolver THEN fresh ELSE resolved
        /\ call' = [op |-> op, trx |-> trx, id |-> id, conn |-> conn,
                    viaResolver |-> asks /\ gc.viaResolver,
                    outcome |-> IF unresolved
                                    THEN IF IsAsync(op) THEN "rejected" ELSE "threw"
                                    ELSE IF err # None THEN "rejected" ELSE "returned",
                    error |-> err,
                    stmts |-> IF unresolved THEN <<>>
                              ELSE FacadeStmts(op, conn, None, trx),
                    result |-> IF err # None THEN Null ELSE row]
        /\ UNCHANGED <<resolver, boundArg, table, pg, dx, ob, bu, cls>>

\* bindConnection(c) and its chainable twin bind(c)
Binding(op, c) ==
    /\ connection' = BindConnectionField(connection, c)
    /\ boundArg' = c
    /\ call' = [op |-> op, trx |-> None, id |-> 0, conn |-> "notcalled",
                viaResolver |-> FALSE, outcome |-> "returned", error |-> None,
                stmts |-> <<>>, result |-> Null]
    /\ UNCHANGED <<resolver, resolverCalls, resolved, table, pg, dx, ob, bu, cls>>

BindConnection == \E c \in Conns : Binding("bindConnection", c)
Bind == \E c \in Conns : Binding("bind", c)

TrxArg == Trxs \cup {None}
\* What the environment has the resolver return, were it invoked.
Fresh == IF resolver THEN Conns ELSE {None}

GetConnectionCall == \E f \in Fresh : Facade("getConnection", None, 0, f)
QueryBuilderCall == \E t \in TrxArg, f \in Fresh : Facade("queryBuilder", t, 0, f)
Find == \E t \in TrxArg, f \in Fresh : Facade("find", t, 0, f)
FindFirst == \E t \in TrxArg, f \in Fresh : Facade("findFirst", t, 0, f)
FindById == \E t \in TrxArg, i \in Ids, f \in Fresh : Facade("findById", t, i, f)
FindByIdOrFail ==
    \E t \in TrxArg, i \in Ids, f \in Fresh : Facade("findByIdOrFail", t, i, f)
FindWithPageAndSort ==
    \E t \in TrxArg, f \in Fresh : Facade("findWithPageAndSort", t, 0, f)
Count == \E t \in TrxArg, f \in Fresh : Facade("count", t, 0, f)
Insert == \E t \in TrxArg, f \in Fresh : Facade("insert", t, 0, f)
UpdateById == \E t \in TrxArg, i \in Ids, f \in Fresh : Facade("updateById", t, i, f)
Update == \E t \in TrxArg, f \in Fresh : Facade("update", t, 0, f)
DeleteById == \E t \in TrxArg, i \in Ids, f \in Fresh : Facade("deleteById", t, i, f)
Delete == \E t \in TrxArg, f \in Fresh : Facade("delete", t, 0, f)
Query == \E t \in TrxArg, f \in Fresh : Facade("query", t, 0, f)
Transaction == \E f \in Fresh : Facade("transaction", None, 0, f)
BatchInsert == \E t \in TrxArg, f \in Fresh : Facade("batchInsert", t, 0, f)
GetValue == \E t \in TrxArg, f \in Fresh : Facade("getValue", t, 0, f)
Check == \E t \in TrxArg, f \in Fresh : Facade("check", t, 0, f)
GetJson == \E t \in TrxArg, f \in Fresh : Facade("getJson", t, 0, f)
Invoke == \E t \in TrxArg, f \in Fresh : Facade("invoke", t, 0, f)
Exec == \E t \in TrxArg, f \in Fresh : Facade("exec", t, 0, f)

----------------------------------------------------------------------------
(* Calls made on the executor directly, with a connection in hand.         *)

ExecutorOps ==
    {"db.find", "db.findFirst", "db.insert", "db.update", "db.remove",
     "db.query", "db.batchInsert"}
LookupOps == {"db.get", "db.getById", "db.findOrThrow"}

ExecutorStmts(op, conn, trx) ==
    CASE op = "db.find" -> DbFind(conn, None, trx)
      [] op = "db.findFirst" -> DbFindFirst(conn, None, trx)
      [] op = "db.insert" -> DbInsert(conn, trx)
      [] op = "db.update" -> DbUpdate(conn, trx)
      [] op = "db.remove" -> DbRemove(conn, trx)
      [] op = "db.query" -> DbQuery(conn, trx)
      [] op = "db.batchInsert" -> DbBatchInsert(conn, trx)
      [] op \in LookupOps -> DbGet(conn, trx)

\* find(connection, table, params, trx) of the get/find pair: get's result,
\* or ModelNotFoundError('Model not found') when get returned null.
DbFindOrThrowError(op, row) ==
    IF op = "db.findOrThrow" /\ row = Null THEN ModelNotFound ELSE None

Executor(op, c, trx, id) ==
    LET row == IF id = 0 THEN Null ELSE Lookup(table, id)
        err == DbFindOrThrowError(op, row)
    IN  /\ call' = [op |-> op, trx |-> trx, id |-> id, conn |-> c,
                    viaResolver |-> FALSE,
                    outcome |-> IF err # None THEN "rejected" ELSE "returned",
                    error |-> err,
                    stmts |-> ExecutorStmts(op, c, trx),
                    result |-> IF err # None THEN Null ELSE row]
        /\ UNCHANGED <<resolver, connection, boundArg, resolverCalls, resolved,
                       table, pg, dx, ob, bu, cls>>

ExecFind == \E c \in Conns, t \in TrxArg : Executor("db.find", c, t, 0)
ExecFindFirst == \E c \in Conns, t \in TrxArg : Executor("db.findFirst", c, t, 0)
ExecInsert == \E c \in Conns, t \in TrxArg : Executor("db.insert", c, t, 0)
ExecUpdate == \E c \in Conns, t \in TrxArg : Executor("db.update", c, t, 0)
ExecRemove == \E c \in Conns, t \in TrxArg : Executor("db.remove", c, t, 0)
ExecQuery == \E c \in Conns, t \in TrxArg : Executor("db.query", c, t, 0)
ExecBatchInsert ==
    \E c \in Conns, t \in TrxArg : Executor("db.batchInsert", c, t, 0)
ExecGet == \E c \in Conns, t \in TrxArg, i \in Ids : Executor("db.get", c, t, i)
ExecGetById ==
    \E c \in Conns, t \in TrxArg, i \in Ids : Executor("db.getById", c, t, i)
ExecFindOrThrow ==
    \E c \in Conns, t \in TrxArg, i \in Ids : Executor("db.findOrThrow", c, t, i)

----------------------------------------------------------------------------
(* utils/paginator.ts and utils/pagination.ts: the pagination engine.      *)
(* `pg` is one pagination call: its inputs, the locals of the function,    *)
(* the log of the statements it issued and saw completed, and its result.  *)

\* Inputs are drawn from these ranges.
MaxRowsIn == 3      \* maxRows / pageSize: up to MaxRowsIn
MaxPage == 4        \* currentPage / page: -1 .. MaxPage
MaxTotal == 12      \* the count query reports 0 .. MaxTotal rows
\* params.maxRows || 10
DefaultMaxRows == 10
BoundParams == {None, "p1"}

Val(s) == CHOOSE v \in s : TRUE

\* Math.ceil(a / b) for b > 0
MathCeil(a, b) == -((-a) \div b)

Event(ev, sql, bound, offset, limit) ==
    [ev |-> ev, sql |-> sql, bound |-> bound, offset |-> offset, limit |-> limit]

PgIdle ==
    [pc |-> "idle", strategy |-> "none", maxRows |-> Null, currentPage |-> Null,
     boundParams |-> None, limit |-> 0, page |-> 0, offset |-> 0, prev |-> Null,
     totalCount |-> 0, error |-> None, log |-> <<>>, result |-> Null,
     hasOrderBy |-> Null, primaryKey |-> "id", windowSql |-> Null,
     qbs |-> <<>>, qb |-> 0, countQb |-> 0, matching |-> 0,
     sortParams |-> Null, defaultOrderBy |-> <<>>]

\* The primary key field of the table a paged query reads.
PrimaryKeys == {"id", "uuid"}
\* params.hasOrderBy: absent, false or true
HasOrderByArg == {Null, Some(FALSE), Some(TRUE)}

\* paginateSql(sql, offset, limit, hasOrderBy = false): the text, by its parts
\* `${sql} ${hasOrderBy ? '' : 'ORDER BY id'} OFFSET ${offset} ROWS FETCH NEXT
\* ${limit} ROWS ONLY `
PaginateSql(sql, offset, limit, hasOrderBy) ==
    [base |-> sql,
     orderBy |-> IF hasOrderBy # Null /\ Val(hasOrderBy) THEN Null ELSE Some("id"),
     offset |-> offset, limit |-> limit]

\* paginate(connection, query, params) up to its first await: the locals are
\* resolved and the caller's count query is issued with params.boundParams.
PaginateBegin(maxRows, currentPage, boundParams) ==
    LET limit == IF maxRows = Null \/ Val(maxRows) = 0
                     THEN DefaultMaxRows ELSE Val(maxRows)
        page == IF currentPage = Null \/ Val(currentPage) = 0 \/ Val(currentPage) < 1
                    THEN 1 ELSE Val(currentPage)
    IN  [PgIdle EXCEPT
            !.pc = "awaitCount", !.strategy = "raw",
            !.maxRows = maxRows, !.currentPage = currentPage,
            !.boundParams = boundParams,
            !.limit = limit, !.page = page, !.offset = (page - 1) * limit,
            !.prev = IF page > 1 THEN Some(page - 1) ELSE Null,
            !.log = <<Event("issue", "count", boundParams, 0, 0)>>]

\* A paginate that carries on with a count of 0 when the count query fails.
PaginateCountFailedSwallowed(p) ==
    [p EXCEPT !.pc = "awaitRows", !.totalCount = 0,
              !.log = @ \o <<Event("fail", "count", p.boundParams, 0, 0),
                             Event("issue", "window", p.boundParams, p.offset,
                                   p.limit)>>]

\* The count query rejects: the await throws and paginate rejects with it.
PaginateCountFailed(p) ==
    [p EXCEPT !.pc = "failed", !.error = "underlying",
              !.log = Append(@, Event("fail", "count", p.boundParams, 0, 0))]

\* The count query resolves to `totalRecords` (its rows): totalRecords[0].count
\* is read, the windowed query is built and issued with the same boundParams.
\* With no row at all, reading .count of undefined throws a TypeError.
PaginateAfterCount(p, totalRecords) ==
    IF totalRecords = <<>>
        THEN [p EXCEPT !.pc = "failed", !.error = "TypeError",
                       !.log = Append(@, Event("ok", "count", p.boundParams, 0, 0))]
        ELSE [p EXCEPT
                !.pc = "awaitRows", !.totalCount = totalRecords[1],
                !.windowSql = Some(PaginateSql("query", p.offset, p.limit,
                                               p.hasOrderBy)),
                !.log = @ \o <<Event("ok", "count", p.boundParams, 0, 0),
                               Event("issue", "window", p.boundParams, p.offset,
                                     p.limit)>>]

\* The page window paginate returns.
PaginatePages(p) ==
    LET last == MathCeil(p.totalCount, p.limit)
    IN  [first |-> 1, prev |-> p.prev, current |-> p.page,
         next |-> IF p.page < last THEN Some(p.page + 1) ELSE Null,
         last |-> last]

\* The windowed query resolves: paginate returns its result.
PaginateAfterRows(p) ==
    [p EXCEPT !.pc = "done",
              !.log = Append(@, Event("ok", "window", p.boundParams, p.offset,
                                      p.limit)),
              !.result = Some([totalCount |-> p.totalCount, maxRows |-> p.limit,
                               pages |-> PaginatePages(p)])]

\* The windowed query rejects.
PaginateRowsFailed(p) ==
    [p EXCEPT !.pc = "failed", !.error = "underlying",
              !.log = Append(@, Event("fail", "window", p.boundParams, p.offset,
                                      p.limit))]

\* buildPages(page, pageSize, count)
BuildPages(page, pageSize, count) ==
    LET last == MathCeil(count, pageSize)
    IN  [first |-> 1,
         prev |-> IF page <= 1 THEN Some(1) ELSE Some(page - 1),
         current |-> page,
         next |-> IF page >= last THEN Some(last) ELSE Some(page + 1),
         last |-> last]

----------------------------------------------------------------------------
(* Query builders.  A knex builder is a mutable object: the builders of a   *)
(* call live in `qbs`, a heap indexed by reference, and every builder      *)
(* method changes the builder it is called on and returns it.              *)

OrderEntry(field, direction) == [field |-> field, direction |-> direction]

\* BaseModel.defaultOrderBy as declared, and as a model may override it.
DefaultOrderBys ==
    {<<OrderEntry("id", "asc")>>,
     <<OrderEntry("name", "asc"), OrderEntry("id", "desc")>>}

\* sortParams: absent, empty, one field, two fields
SortArgs ==
    {Null, Some(<<>>), Some(<<OrderEntry("name", "desc")>>),
     Some(<<OrderEntry("age", "desc"), OrderEntry("name", "asc")>>)}

\* queryBuilder(connection, trx).select('*').from(table).where(params)
QbSelectWhere(params) ==
    [select |-> <<"*">>, where |-> params, order |-> <<>>,
     offset |-> Null, limit |-> Null]

\* qb.orderBy(entries), qb.orderBy(field, direction) called for each entry:
\* the entries are added after those already there, in their sequence.
QbOrderBy(q, entries) == [q EXCEPT !.order = @ \o entries]
QbClearOrder(q) == [q EXCEPT !.order = <<>>]
QbClearSelect(q) == [q EXCEPT !.select = <<>>]
QbCount(q) == [q EXCEPT !.select = Append(@, "count(*)")]
QbOffsetLimit(q, offset, limit) ==
    [q EXCEPT !.offset = Some(offset), !.limit = Some(limit)]

\* find of db.ts: select, where, and the ordering handed in when there is one
\* (an array, even an empty one, is truthy)
DbFindOrdered(params, orderBy) == QbOrderBy(QbSelectWhere(params), orderBy)

\* find of the executor model.ts is written against: select, where and the
\* callback, no ordering
DbFindCallback(params) == QbSelectWhere(params)

\* if (sortParams && sortParams.length > 0) { qb.clearOrder(); sortParams.forEach(
\* item => qb.orderBy(item.field, item.direction)) }
ApplySortParams(q, sortParams) ==
    IF sortParams # Null /\ Len(Val(sortParams)) > 0
        THEN QbOrderBy(QbClearOrder(q), Val(sortParams))
        ELSE q

\* A clone that is the builder itself, not a copy.
QbCloneAlias(heap, ref) == [heap |-> heap, ref |-> ref]

\* qb.clone(): a new builder with the same statements
QbClone(heap, ref) == [heap |-> Append(heap, heap[ref]), ref |-> Len(heap) + 1]

\* What the database answers to a count query over `matching` rows: one row
\* holding the count, which an offset or a limit of the query windows away.
CountResult(q, matching) ==
    IF (q.offset # Null /\ Val(q.offset) > 0) \/ (q.limit # Null /\ Val(q.limit) = 0)
        THEN <<>> ELSE <<matching>>

\* BaseModel.findWithPageAndSort of model.ts: the offset and the limit are put
\* on the query as given, the sort fields replace the ordering, and the query
\* is returned.
FindWithPageAndSortWindow(page, pageSize, sortParams) ==
    LET found == DbFindCallback("params")
        windowed == QbOffsetLimit(found, (page - 1) * pageSize, pageSize)
    IN  [PgIdle EXCEPT
            !.pc = "done", !.strategy = "builder",
            !.maxRows = Some(pageSize), !.currentPage = Some(page),
            !.limit = pageSize, !.page = page, !.offset = (page - 1) * pageSize,
            !.sortParams = sortParams,
            !.qbs = <<ApplySortParams(windowed, sortParams)>>, !.qb = 1,
            !.log = <<Event("issue", "window", None, (page - 1) * pageSize,
                            pageSize)>>]

\* The earlier findWithPageAndSort, which counts on a clone and pages itself:
\* up to its first await.
BuilderBegin(page, pageSize, sortParams, defaultOrderBy) ==
    LET found == DbFindOrdered("params", defaultOrderBy)
        sorted == <<ApplySortParams(found, sortParams)>>
        cloned == QbClone(sorted, 1)
        countQb == cloned.ref
        counting == [cloned.heap EXCEPT
                        ![countQb] = QbCount(QbClearOrder(QbClearSelect(@)))]
    IN  [PgIdle EXCEPT
            !.pc = "awaitCount", !.strategy = "builderCount",
            !.maxRows = Some(pageSize), !.currentPage = Some(page),
            !.limit = pageSize, !.page = page,
            !.sortParams = sortParams, !.defaultOrderBy = defaultOrderBy,
            !.qbs = counting, !.qb = 1, !.countQb = countQb,
            !.log = <<Event("issue", "count", None, 0, 0)>>]

\* ... from the count to the second await
BuilderAfterCount(p, count) ==
    [p EXCEPT !.pc = "awaitRows", !.totalCount = count,
              !.offset = (p.page - 1) * p.limit,
              !.qbs[p.qb] = QbOffsetLimit(@, (p.page - 1) * p.limit, p.limit),
              !.log = @ \o <<Event("ok", "count", None, 0, 0),
                             Event("issue", "window", None,
                                   (p.page - 1) * p.limit, p.limit)>>]

\* ... and its result
BuilderAfterRows(p) ==
    [p EXCEPT !.pc = "done",
              !.log = Append(@, Event("ok", "window", None, p.offset, p.limit)),
              !.result = Some([totalCount |-> p.totalCount, maxRows |-> p.limit,
                               pages |-> BuildPages(p.page, p.limit, p.totalCount)])]

\* A query of it rejects inside `new Promise(async (resolve, reject) => ...)`:
\* neither resolve nor reject is called, the promise handed out stays pending.
BuilderQueryFailed(p, sql) ==
    [p EXCEPT !.pc = "pending", !.error = "underlying",
              !.log = Append(@, Event("fail", sql, None, 0, 0))]

NullableRows == {Null} \cup {Some(n) : n \in 0..MaxRowsIn}
NullablePage == {Null} \cup {Some(n) : n \in -1..MaxPage}

PaginateCall ==
    /\ pg.pc = "idle"
    /\ \E m \in NullableRows, c \in NullablePage, b \in BoundParams,
          h \in HasOrderByArg, k \in PrimaryKeys :
          pg' = [PaginateBegin(m, c, b) EXCEPT !.hasOrderBy = h, !.primaryKey = k]
    /\ UNCHANGED <<facadeVars, dx, ob, bu, cls>>

CountResolved ==
    /\ pg.pc = "awaitCount" /\ pg.strategy = "raw"
    /\ \E rows \in {<<>>} \cup {<<n>> : n \in 0..MaxTotal} :
          pg' = PaginateAfterCount(pg, rows)
    /\ UNCHANGED <<facadeVars, dx, ob, bu, cls>>

CountRejected ==
    /\ pg.pc = "awaitCount" /\ pg.strategy = "raw"
    /\ pg' = PaginateCountFailed(pg)
    /\ UNCHANGED <<facadeVars, dx, ob, bu, cls>>

RowsResolved ==
    /\ pg.pc = "awaitRows" /\ pg.strategy = "raw"
    /\ pg' = PaginateAfterRows(pg)
    /\ UNCHANGED <<facadeVars, dx, ob, bu, cls>>

RowsRejected ==
    /\ pg.pc = "awaitRows" /\ pg.strategy = "raw"
    /\ pg' = PaginateRowsFailed(pg)
    /\ UNCHANGED <<facadeVars, dx, ob, bu, cls>>

FindWithPageAndSortQuery ==
    /\ pg.pc = "idle"
    /\ \E page \in -1..MaxPage, size \in 1..MaxRowsIn, sort \in SortArgs :
          pg' = FindWithPageAndSortWindow(page, size, sort)
    /\ UNCHANGED <<facadeVars, dx, ob, bu, cls>>

BuilderCall ==
    /\ pg.pc = "idle"
    /\ \E page \in -1..MaxPage, size \in 1..MaxRowsIn, sort \in SortArgs,
          dflt \in DefaultOrderBys :
          pg' = BuilderBegin(page, size, sort, dflt)
    /\ UNCHANGED <<facadeVars, dx, ob, bu, cls>>

BuilderCountResolved ==
    /\ pg.pc = "awaitCount" /\ pg.strategy = "builderCount"
    /\ \E n \in 0..MaxTotal :
          LET countResult == CountResult(pg.qbs[pg.countQb], n)
          IN  pg' = IF countResult = <<>>
                        THEN BuilderQueryFailed([pg EXCEPT !.matching = n], "count")
                        ELSE BuilderAfterCount([pg EXCEPT !.matching = n],
                                               countResult[1])
    /\ UNCHANGED <<facadeVars, dx, ob, bu, cls>>

BuilderCountRejected ==
    /\ pg.pc = "awaitCount" /\ pg.strategy = "builderCount"
    /\ pg' = BuilderQueryFailed(pg, "count")
    /\ UNCHANGED <<facadeVars, dx, ob, bu, cls>>

BuilderRowsResolved ==
    /\ pg.pc = "awaitRows" /\ pg.strategy = "builderCount"
    /\ pg' = BuilderAfterRows(pg)
    /\ UNCHANGED <<facadeVars, dx, ob, bu, cls>>

BuilderRowsRejected ==
    /\ pg.pc = "awaitRows" /\ pg.strategy = "builderCount"
    /\ pg' = BuilderQueryFailed(pg, "window")
    /\ UNCHANGED <<facadeVars, dx, ob, bu, cls>>

----------------------------------------------------------------------------
(* utils/object.ts, and the data of an executor call.  A key is the        *)
(* sequence of its characters; an object is the set of its fields.         *)

Upper == {"A", "B", "U"}
ToLower(c) == CASE c = "A" -> "a" [] c = "B" -> "b" [] c = "U" -> "u" [] OTHER -> c
ToUpper(c) == CASE c = "a" -> "A" [] c = "b" -> "B" [] c = "u" -> "U" [] OTHER -> c

\* snakeize on a key: str.replace(/[A-Z]/g, x => '_' + x.toLowerCase())
RECURSIVE SnakeCase(_)
SnakeCase(str) ==
    IF str = <<>> THEN <<>>
    ELSE IF Head(str) \in Upper
        THEN <<"_", ToLower(Head(str))>> \o SnakeCase(Tail(str))
        ELSE <<Head(str)>> \o SnakeCase(Tail(str))

\* camelize on a key: str.replace(/[_.-](\w|$)/g, (_, x) => x.toUpperCase())
RECURSIVE CamelCase(_)
CamelCase(str) ==
    IF str = <<>> THEN <<>>
    ELSE IF Head(str) = "_"
        THEN IF Len(str) = 1
                 THEN <<>>
                 ELSE <<ToUpper(str[2])>> \o CamelCase(SubSeq(str, 3, Len(str)))
        ELSE <<Head(str)>> \o CamelCase(Tail(str))

Field(k, v) == [k |-> k, v |-> v]

\* toSnakeCase / toCamelCase on an object, and on an array of objects
ToSnakeCase(object) == {Field(SnakeCase(f.k), f.v) : f \in object}
ToCamelCase(object) == {Field(CamelCase(f.k), f.v) : f \in object}
ToSnakeCaseAll(rows) == [i \in 1..Len(rows) |-> ToSnakeCase(rows[i])]
ToCamelCaseAll(rows) == [i \in 1..Len(rows) |-> ToCamelCase(rows[i])]

\* The keys callers and tables use: id, aB / a_b, updatedAt / updated_at.
KeyId == <<"i", "d">>
KeyCamel == <<"a", "B">>
KeySnake == <<"a", "_", "b">>
UpdatedAt == <<"u", "A">>
UpdatedAtColumn == <<"u", "_", "a">>

\* connection.fn.now()
Now == 99

\* { ...object, [k]: v }
Spread(object, k, v) == {f \in object : f.k # k} \cup {Field(k, v)}
\* object[k] is there and truthy: of the values written, 0 is falsy
HasTruthy(object, k) == \E f \in object : f.k = k /\ f.v # 0

\* withTimestamp of db.ts, given what hasColumn(table, 'updated_at') answered
WithTimestamp(exists, params) ==
    IF ~exists \/ (exists /\ HasTruthy(params, UpdatedAt))
        THEN ToSnakeCase(params)
        ELSE Spread(ToSnakeCase(params), UpdatedAtColumn, Now)

\* withTimestamp of the executor that does not convert keys
WithTimestampAsGiven(exists, params) ==
    IF ~exists \/ (exists /\ HasTruthy(params, UpdatedAt))
        THEN params
        ELSE Spread(params, UpdatedAtColumn, Now)

\* A statement as it reaches the connection: its predicate and its data.
Statement(kind, where, data) == [kind |-> kind, where |-> where, data |-> data]
HasColumn == Statement("hasColumn", {}, <<>>)
Outcome(stmts, result) == [stmts |-> stmts, result |-> result]

\* The inputs of the calls followed.
Wheres == {{Field(KeyCamel, 7)}, {Field(KeyId, 1)}}
UpdateParams ==
    {{Field(KeyCamel, 7)},
     {Field(KeyCamel, 7), Field(UpdatedAt, 5)},
     {Field(KeyCamel, 7), Field(UpdatedAt, 0)},
     {Field(KeyCamel, 7), Field(UpdatedAtColumn, 5)},
     {}}
\* The rows the database hands back, under their column names.
StoredRows ==
    {<<>>,
     << {Field(KeyId, 1), Field(KeySnake, 7)} >>,
     << {Field(KeyId, 1), Field(KeySnake, 7), Field(UpdatedAtColumn, Now)},
        {Field(KeyId, 2), Field(KeySnake, 7), Field(UpdatedAtColumn, Now)} >>}

DxIdle ==
    [pc |-> "idle", op |-> "none", variant |-> "none", where |-> {},
     params |-> {}, rows |-> <<>>, exists |-> FALSE, chunkSize |-> 0,
     stmts |-> <<>>, result |-> <<>>,
     objectName |-> <<>>, bound |-> Null, raw |-> <<>>, error |-> None]

\* One call, start to end: what it was given and what came of it.
DataCall(op, variant, where, params, exists, outcome) ==
    /\ dx.pc = "idle"
    /\ dx' = [DxIdle EXCEPT
                !.pc = "done", !.op = op, !.variant = variant,
                !.where = where, !.params = params, !.exists = exists,
                !.stmts = outcome.stmts, !.result = outcome.result]
    /\ UNCHANGED <<facadeVars, pg, ob, bu, cls>>

\* update of db.ts
UpdateDbTs ==
    \E w \in Wheres, p \in UpdateParams, e \in BOOLEAN, r \in StoredRows :
        DataCall("update", "db.ts", w, p, e,
                 Outcome(<<HasColumn,
                           Statement("update", ToSnakeCase(w),
                                     <<WithTimestamp(e, p)>>)>>,
                         r))
\* update of the executor that does not convert keys
UpdateAsGiven ==
    \E w \in Wheres, p \in UpdateParams, e \in BOOLEAN, r \in StoredRows :
        DataCall("update", "asGiven", w, p, e,
                 Outcome(<<HasColumn,
                           Statement("update", w,
                                     <<WithTimestampAsGiven(e, p)>>)>>,
                         r))
\* updateWhere, and updateById with whereIn('id', [id])
UpdateWhereCall ==
    \E w \in Wheres, p \in UpdateParams, e \in BOOLEAN, r \in StoredRows :
        DataCall("update", "normalised", w, p, e,
                 Outcome(<<HasColumn,
                           Statement("update", ToSnakeCase(w),
                                     <<WithTimestamp(e, p)>>)>>,
                         ToCamelCaseAll(r)))
UpdateByIdCall ==
    \E p \in UpdateParams, e \in BOOLEAN, r \in StoredRows :
        DataCall("update", "normalisedById", {Field(KeyId, 1)}, p, e,
                 Outcome(<<HasColumn,
                           Statement("update", {Field(KeyId, 1)},
                                     <<WithTimestamp(e, p)>>)>>,
                         ToCamelCaseAll(r)))
\* update of the earliest executor: no timestamp, the data as given
UpdateEarly ==
    \E w \in Wheres, p \in UpdateParams, e \in BOOLEAN, r \in StoredRows :
        DataCall("update", "early", w, p, e,
                 Outcome(<<Statement("update", ToSnakeCase(w), <<p>>)>>, r))

\* The rows a caller inserts.
InsertData ==
    {<< {Field(KeyCamel, 7)} >>,
     << {Field(KeyCamel, 7), Field(KeyId, 1)}, {Field(KeyCamel, 5), Field(KeyId, 2)} >>}

\* find, insert, remove and query of db.ts: the predicate and the data are
\* converted; find, insert and query hand back what the builder yields.
FindDbTs ==
    \E w \in Wheres, r \in StoredRows :
        DataCall("find", "db.ts", w, {}, FALSE,
                 Outcome(<<Statement("select", ToSnakeCase(w), <<>>)>>, r))
InsertDbTs ==
    \E d \in InsertData, r \in StoredRows :
        DataCall("insert", "db.ts", {}, {}, FALSE,
                 Outcome(<<Statement("insert", {}, ToSnakeCaseAll(d))>>, r))
RemoveDbTs ==
    \E w \in Wheres, r \in StoredRows :
        DataCall("remove", "db.ts", w, {}, FALSE,
                 Outcome(<<Statement("delete", ToSnakeCase(w), <<>>)>>,
                         ToCamelCaseAll(r)))
QueryDbTs ==
    \E r \in StoredRows :
        DataCall("query", "db.ts", {}, {}, FALSE,
                 Outcome(<<Statement("raw", {}, <<>>)>>, r))

\* ... of the executor that does not convert keys
FindAsGiven ==
    \E w \in Wheres, r \in StoredRows :
        DataCall("find", "asGiven", w, {}, FALSE,
                 Outcome(<<Statement("select", w, <<>>)>>, r))
InsertAsGiven ==
    \E d \in InsertData, r \in StoredRows :
        DataCall("insert", "asGiven", {}, {}, FALSE,
                 Outcome(<<Statement("insert", {}, d)>>, r))
RemoveAsGiven ==
    \E w \in Wheres, r \in StoredRows :
        DataCall("remove", "asGiven", w, {}, FALSE,
                 Outcome(<<Statement("delete", w, <<>>)>>, r))

\* findAll, insert and query of the executor that converts both ways
FindAllCall ==
    \E w \in Wheres, r \in StoredRows :
        DataCall("find", "normalised", w, {}, FALSE,
                 Outcome(<<Statement("select", ToSnakeCase(w), <<>>)>>,
                         ToCamelCaseAll(r)))
InsertRowsCall ==
    \E d \in InsertData, r \in StoredRows :
        DataCall("insert", "normalised", {}, {}, FALSE,
                 Outcome(<<Statement("insert", {}, ToSnakeCaseAll(d))>>,
                         ToCamelCaseAll(r)))
QueryRowsCall ==
    \E r \in StoredRows :
        DataCall("query", "normalised", {}, {}, FALSE,
                 Outcome(<<Statement("raw", {}, <<>>)>>, ToCamelCaseAll(r)))

\* batchInsert takes up to MaxBatch rows in chunks of up to MaxChunk.
MaxBatch == 5
MaxChunk == 3
\* BaseModel.batchInsert(data, trx, chunksize = 30)
DefaultChunkSize == 30

\* The rows of a batch: row i holds the value i, so that order shows.
BatchRows(n) == [i \in 1..n |-> {Field(KeyCamel, i)}]

\* knex's batchInsert(table, rows, chunkSize), as the executor relies on it:
\* the rows are cut into chunks of chunkSize in their order, one insert is
\* issued per chunk, and the rows the inserts return are concatenated.
RECURSIVE Chunks(_, _)
Chunks(rows, chunkSize) ==
    IF rows = <<>> THEN <<>>
    ELSE IF Len(rows) <= chunkSize THEN <<rows>>
    ELSE <<SubSeq(rows, 1, chunkSize)>>
             \o Chunks(SubSeq(rows, chunkSize + 1, Len(rows)), chunkSize)
\* The database returns what it stored, under snake_case column names.
Returning(rows) == [i \in 1..Len(rows) |-> {Field(SnakeCase(f.k), f.v) : f \in rows[i]}]
KnexBatchInsert(rows, chunkSize) ==
    LET chunks == Chunks(rows, chunkSize)
    IN  Outcome([k \in 1..Len(chunks) |-> Statement("insert", {}, chunks[k])],
                Returning(rows))

\* A batchInsert that hands all its rows to one insert.
DbBatchInsertRowsUnchunked(data, chunkSize) ==
    Outcome(<<Statement("insert", {}, ToSnakeCaseAll(data))>>,
            ToCamelCaseAll(Returning(data)))

\* batchInsert of the executor that converts both ways
DbBatchInsertRows(data, chunkSize) ==
    LET done == KnexBatchInsert(ToSnakeCaseAll(data), chunkSize)
    IN  Outcome(done.stmts, ToCamelCaseAll(done.result))

\* batchInsert of the executor that does not convert keys
AsGivenBatchInsert(data, chunkSize) == KnexBatchInsert(data, chunkSize)

BatchCall(variant, rows, chunkSize, outcome) ==
    /\ dx.pc = "idle"
    /\ dx' = [DxIdle EXCEPT
                !.pc = "done", !.op = "batchInsert", !.variant = variant,
                !.rows = rows, !.chunkSize = chunkSize,
                !.stmts = outcome.stmts, !.result = outcome.result]
    /\ UNCHANGED <<facadeVars, pg, ob, bu, cls>>

BatchInsertRowsCall ==
    \E n \in 0..MaxBatch, c \in 1..MaxChunk :
        BatchCall("normalised", BatchRows(n), c, DbBatchInsertRows(BatchRows(n), c))
BatchInsertAsGiven ==
    \E n \in 0..MaxBatch, c \in 1..MaxChunk :
        BatchCall("asGiven", BatchRows(n), c, AsGivenBatchInsert(BatchRows(n), c))
\* batchInsert of the earliest executor: the data converted, the builder returned
BatchInsertEarly ==
    \E n \in 0..MaxBatch, c \in 1..MaxChunk :
        BatchCall("early", BatchRows(n), c,
                  KnexBatchInsert(ToSnakeCaseAll(BatchRows(n)), c))
\* BaseModel.batchInsert(data, trx, chunksize = 30)
BatchInsertModel ==
    \E n \in 0..MaxBatch, c \in {Null} \cup {Some(k) : k \in 1..MaxChunk} :
        LET chunksize == IF c = Null THEN DefaultChunkSize ELSE Val(c)
        IN  BatchCall("model", BatchRows(n), chunksize,
                      AsGivenBatchInsert(BatchRows(n), chunksize))

\* objectName.trim(): the leading and the trailing blanks go
Trim(str) ==
    LET RECURSIVE TrimStart(_)
        TrimStart(t) ==
            IF t # <<>> /\ Head(t) = " " THEN TrimStart(Tail(t)) ELSE t
        RECURSIVE TrimEnd(_)
        TrimEnd(t) ==
            IF t # <<>> /\ t[Len(t)] = " "
                THEN TrimEnd(SubSeq(t, 1, Len(t) - 1)) ELSE t
    IN  TrimEnd(TrimStart(str))

\* Object.keys(params).map(key => ':' + key).join(', ')
RECURSIVE JoinKeys(_)
JoinKeys(fields) ==
    IF fields = <<>> THEN <<>>
    ELSE IF Len(fields) = 1 THEN <<":">> \o fields[1].k
    ELSE <<":">> \o fields[1].k \o <<",", " ">> \o JoinKeys(Tail(fields))

InvalidName == "Invalid function or procedure name"

\* A getProcParamsExpr that does not trim the name.
GetProcParamsExprAsTyped(objectName, params) ==
    IF Trim(objectName) = <<>>
        THEN [error |-> InvalidName, procName |-> <<>>, expr |-> <<>>]
        ELSE [error |-> None, procName |-> objectName,
              expr |-> IF params # Null THEN JoinKeys(Val(params)) ELSE <<>>]

\* A getProcParamsExpr that tests the name as typed, before trimming it.
GetProcParamsExprBlankPasses(objectName, params) ==
    IF objectName = <<>>
        THEN [error |-> InvalidName, procName |-> <<>>, expr |-> <<>>]
        ELSE [error |-> None, procName |-> Trim(objectName),
              expr |-> IF params # Null THEN JoinKeys(Val(params)) ELSE <<>>]

\* getProcParamsExpr(objectName, params): params is an ordered map or absent
GetProcParamsExpr(objectName, params) ==
    LET procName == Trim(objectName)
    IN  IF procName = <<>>
            THEN [error |-> InvalidName, procName |-> <<>>, expr |-> <<>>]
            ELSE [error |-> None, procName |-> procName,
                  expr |-> IF params # Null THEN JoinKeys(Val(params)) ELSE <<>>]

\* query(connection, sql, params): params ? conn.raw(sql, params) : conn.raw(sql)
RawStatement(sql, params) == [sql |-> sql, bindings |-> params]

\* The names and the named-parameter maps a caller passes.
ObjectNames == {<<"f">>, <<" ", "f", "g", " ">>, <<"f", " ", "g">>, <<" ">>, <<>>}
ParamMaps ==
    {Null, Some(<<>>), Some(<<Field(<<"a">>, 1)>>),
     Some(<<Field(<<"b">>, 2), Field(<<"a">>, 1)>>),
     Some(<<Field(<<"a">>, 1), Field(<<"b">>, 2), Field(<<"u">>, 0)>>)}

ProcCall(op, objectName, params, outcome) ==
    /\ dx.pc = "idle"
    /\ dx' = [DxIdle EXCEPT
                !.pc = IF outcome.error = None THEN "done" ELSE "rejected",
                !.op = op, !.variant = "asGiven",
                !.objectName = objectName, !.bound = params,
                !.error = outcome.error, !.raw = outcome.raw]
    /\ UNCHANGED <<facadeVars, pg, ob, bu, cls>>

\* invoke: SELECT ${procName}(${expr}); an invalid name throws before any
\* SQL is built
InvokeCall ==
    \E n \in ObjectNames, p \in ParamMaps :
        LET e == GetProcParamsExpr(n, p)
        IN  ProcCall("invoke", n, p,
                     IF e.error # None
                         THEN [error |-> e.error, raw |-> <<>>]
                         ELSE [error |-> None,
                               raw |-> <<RawStatement(
                                   <<"SELECT", " ">> \o e.procName \o <<"(">>
                                       \o e.expr \o <<")">>, p)>>])
\* exec: EXEC ${procName} ${expr}
ExecCall ==
    \E n \in ObjectNames, p \in ParamMaps :
        LET e == GetProcParamsExpr(n, p)
        IN  ProcCall("exec", n, p,
                     IF e.error # None
                         THEN [error |-> e.error, raw |-> <<>>]
                         ELSE [error |-> None,
                               raw |-> <<RawStatement(
                                   <<"EXEC", " ">> \o e.procName \o <<" ">>
                                       \o e.expr, p)>>])

----------------------------------------------------------------------------
(* utils/object.ts on whole values.  A value is a scalar, a sequence of    *)
(* values or a mapping: the fields of a mapping are kept in the order of   *)
(* their insertion, a key as the sequence of its characters.               *)

\* The conversions are applied at most MaxApply times in a row.
MaxApply == 2

Value(t, v) == [t |-> t, v |-> v]
Nil == Value("null", <<>>)

\* camelize / snakeize below the top: walk(obj).  A falsy or non-object value
\* is returned as it is, an array is mapped, and the keys of an object are
\* reduced into a new object by acc[convert(key)] = walk(obj[key]).
RECURSIVE Walk(_, _)
Walk(dir, obj) ==
    LET convert(key) == IF dir = "camel" THEN CamelCase(key) ELSE SnakeCase(key)
        Assign(acc, k, v) ==
            IF \E i \in 1..Len(acc) : acc[i].k = k
                THEN [i \in 1..Len(acc) |->
                         IF acc[i].k = k THEN Field(k, v) ELSE acc[i]]
                ELSE Append(acc, Field(k, v))
        RECURSIVE Reduce(_, _)
        Reduce(fields, acc) ==
            IF fields = <<>> THEN acc
            ELSE Reduce(Tail(fields),
                        Assign(acc, convert(Head(fields).k), Walk(dir, Head(fields).v)))
    IN  CASE obj.t = "seq" -> Value("seq", [i \in 1..Len(obj.v) |-> Walk(dir, obj.v[i])])
          [] obj.t = "map" -> Value("map", Reduce(obj.v, <<>>))
          [] OTHER -> obj

\* A camelize that converts the keys of the outermost object only.
CamelizeShallow(object) ==
    IF object.t = "str" THEN Value("str", CamelCase(object.v))
    ELSE IF object.t = "map"
        THEN Value("map", [i \in 1..Len(object.v) |->
                              Field(CamelCase(object.v[i].k), object.v[i].v)])
        ELSE object

\* toCamelCase(object) = camelize(object), toSnakeCase(object) = snakeize(object):
\* a string is converted itself, anything else is walked.
Camelize(object) ==
    IF object.t = "str" THEN Value("str", CamelCase(object.v)) ELSE Walk("camel", object)
Snakeize(object) ==
    IF object.t = "str" THEN Value("str", SnakeCase(object.v)) ELSE Walk("snake", object)

\* The values a caller passes.
Values ==
    << Nil,
       Value("num", <<"1">>),
       Value("str", <<"a", "B">>),
       Value("str", <<"a", "_", "b">>),
       Value("map", <<>>),
       Value("seq", <<>>),
       Value("map", <<Field(<<"a", "B">>, Value("num", <<"1">>))>>),
       Value("map", <<Field(<<"a", "_", "b">>, Value("num", <<"1">>))>>),
       Value("map", <<Field(<<"a", "_", "_", "b">>, Value("num", <<"1">>))>>),
       Value("map", <<Field(<<"A", "B">>, Value("num", <<"1">>))>>),
       Value("map", <<Field(<<"a", "_">>, Value("num", <<"1">>))>>),
       Value("map", <<Field(<<"a", "B">>, Value("num", <<"1">>)),
                      Field(<<"a", "_", "b">>, Value("num", <<"2">>))>>),
       Value("map", <<Field(<<"u", "A">>, Value("num", <<"1">>)),
                      Field(<<"a", "b">>,
                            Value("map", <<Field(<<"a", "B">>,
                                                 Value("str", <<"a", "_", "b">>))>>))>>),
       Value("map", <<Field(<<"u", "_", "a">>, Value("num", <<"1">>)),
                      Field(<<"a", "b">>,
                            Value("map", <<Field(<<"a", "_", "b">>,
                                                 Value("str", <<"X">>))>>))>>),
       Value("seq", <<Value("map", <<Field(<<"a", "B">>, Value("num", <<"1">>))>>),
                      Value("map", <<Field(<<"u", "A">>, Value("num", <<"2">>))>>)>>),
       Value("seq", <<Value("num", <<"1">>), Value("str", <<"a", "_", "b">>),
                      Value("str", <<"a", "B">>)>>),
       Value("map", <<Field(<<"a", "B">>,
                            Value("seq", <<Value("map",
                                <<Field(<<"u", "A">>, Value("num", <<"1">>)),
                                  Field(<<"b">>, Nil)>>)>>))>>),
       Value("map", <<Field(<<"a", "_", "b">>,
                            Value("seq", <<Value("map",
                                <<Field(<<"u", "_", "a">>, Value("num", <<"1">>))>>)>>))>>)
    >>

ObIdle ==
    [op |-> "none", x |-> Nil, steps |-> <<>>, ys |-> <<>>,
     a |-> Nil, b |-> Nil, equal |-> FALSE]

\* toCamelCase / toSnakeCase applied to a value passed in, or to what the
\* conversion before it returned.
Convert(fn, i) ==
    /\ ob.op \in {"none", "convert"}
    /\ Len(ob.steps) < MaxApply
    /\ LET x == IF ob.steps = <<>> THEN Values[i] ELSE ob.ys[Len(ob.ys)]
       IN  ob' = [ob EXCEPT
                    !.op = "convert",
                    !.x = IF ob.steps = <<>> THEN x ELSE @,
                    !.steps = Append(@, fn),
                    !.ys = Append(@, IF fn = "toCamelCase" THEN Camelize(x)
                                                          ELSE Snakeize(x))]
    /\ UNCHANGED <<facadeVars, pg, dx, bu, cls>>

ToCamelCaseCall == \E i \in 1..Len(Values) : Convert("toCamelCase", i)
ToSnakeCaseCall == \E i \in 1..Len(Values) : Convert("toSnakeCase", i)

\* ramda's equals(x, y) on these values: the same type and, deeply, the same
\* content, the keys of an object in any order.
RECURSIVE Equals(_, _)
Equals(x, y) ==
    /\ x.t = y.t
    /\ Len(x.v) = Len(y.v)
    /\ CASE x.t = "map" ->
                \A i \in 1..Len(x.v) :
                    \E j \in 1..Len(y.v) :
                        x.v[i].k = y.v[j].k /\ Equals(x.v[i].v, y.v[j].v)
         [] x.t = "seq" -> \A i \in 1..Len(x.v) : Equals(x.v[i], y.v[i])
         [] OTHER -> x.v = y.v

\* isPartiallyEqual(a, b): equals(a, pick(Object.keys(a), b)), and false when
\* a or b is no instance of Object (arrays are).  Object.keys of an array are
\* its indices, which none of the keys followed here is.
IsPartiallyEqual(a, b) ==
    LET instanceOfObject(x) == x.t \in {"map", "seq"}
        keys == IF a.t = "map" THEN [i \in 1..Len(a.v) |-> a.v[i].k] ELSE <<>>
        has(k) == b.t = "map" /\ \E j \in 1..Len(b.v) : b.v[j].k = k
        RECURSIVE Pick(_)
        Pick(names) ==
            IF names = <<>> THEN <<>>
            ELSE IF has(Head(names))
                THEN <<b.v[CHOOSE j \in 1..Len(b.v) : b.v[j].k = Head(names)]>>
                         \o Pick(Tail(names))
                ELSE Pick(Tail(names))
    IN  IF ~instanceOfObject(a) \/ ~instanceOfObject(b)
            THEN FALSE
            ELSE Equals(a, Value("map", Pick(keys)))

IsPartiallyEqualCall ==
    /\ ob.op = "none"
    /\ \E i, j \in 1..Len(Values) :
          ob' = [ObIdle EXCEPT !.op = "isPartiallyEqual",
                               !.a = Values[i], !.b = Values[j],
                               !.equal = IsPartiallyEqual(Values[i], Values[j])]
    /\ UNCHANGED <<facadeVars, pg, dx, bu, cls>>

----------------------------------------------------------------------------
(* db.ts: batchUpdateViaQuery, a process that suspends at its await.       *)

\* dataSize is 0..MaxDataSize and batchSize 1..MaxBatchSize.
MaxDataSize == 7
MaxBatchSize == 3

\* A totalBatch that rounds down.
TotalBatchFloor(dataSize, batchSize) == dataSize \div batchSize

\* const totalBatch = Math.ceil(dataSize / batchSize)
TotalBatch(dataSize, batchSize) == MathCeil(dataSize, batchSize)

BuIdle ==
    [pc |-> "idle", dataSize |-> 0, batchSize |-> 0, totalBatch |-> 0,
     currentBatch |-> 0, log |-> <<>>, error |-> None]

\* The head of the loop: with currentBatch <= totalBatch the query is issued
\* on the transaction, bound with {batchSize}, and awaited; else the call ends.
BatchLoop(b) ==
    IF b.currentBatch <= b.totalBatch
        THEN [b EXCEPT !.pc = "await",
                       !.log = Append(@, Event("issue", "update", b.batchSize, 0, 0))]
        ELSE [b EXCEPT !.pc = "done"]

\* batchUpdateViaQuery(trx, updateQuery, {dataSize, batchSize}): up to the
\* first await
BatchUpdateViaQueryCall ==
    /\ bu.pc = "idle"
    /\ \E dataSize \in 0..MaxDataSize, batchSize \in 1..MaxBatchSize :
          bu' = BatchLoop([BuIdle EXCEPT
                              !.dataSize = dataSize, !.batchSize = batchSize,
                              !.totalBatch = TotalBatch(dataSize, batchSize),
                              !.currentBatch = 1])
    /\ UNCHANGED <<facadeVars, pg, dx, ob, cls>>

\* await trx.raw(...) resolves: currentBatch++ and the head of the loop again
RawResolved ==
    /\ bu.pc = "await"
    /\ bu' = BatchLoop([bu EXCEPT
                           !.currentBatch = @ + 1,
                           !.log = Append(@, Event("ok", "update", bu.batchSize, 0, 0))])
    /\ UNCHANGED <<facadeVars, pg, dx, ob, cls>>

\* await trx.raw(...) rejects: the await throws and the call rejects with it
RawRejected ==
    /\ bu.pc = "await"
    /\ bu' = [bu EXCEPT !.pc = "failed", !.error = "underlying",
                        !.log = Append(@, Event("fail", "update", bu.batchSize, 0, 0))]
    /\ UNCHANGED <<facadeVars, pg, dx, ob, cls>>

----------------------------------------------------------------------------
(* model.ts: model classes.  createBaseModel returns a new class on every  *)
(* call; a model class extends a base model or another model class.  A     *)
(* static property written through `this` becomes an own property of the  *)
(* class the method was called on; read through `this`, it is looked up    *)
(* along the chain of classes the class extends.                           *)

\* Model and Other come from two createBaseModel calls, Other's with a resolver.
Classes == {"Model", "User", "Post", "Admin", "Other", "OtherUser"}
Extends ==
    [c \in Classes |->
        CASE c \in {"User", "Post"} -> "Model"
          [] c = "Admin" -> "User"
          [] c = "OtherUser" -> "Other"
          [] OTHER -> None]
HasResolver(c) == c \in {"Other", "OtherUser"}

\* A bindConnection that writes the property on the base model.
BindingTargetBase(c) ==
    CASE c \in {"User", "Post", "Admin"} -> "Model"
      [] c = "OtherUser" -> "Other"
      [] OTHER -> c

\* this.connection = connection, called on class c: `this` is c
BindingTarget(c) == c

\* this.connection read on class c, given the own properties of the classes
RECURSIVE StaticConnection(_, _)
StaticConnection(own, c) ==
    IF own[c] # None THEN own[c]
    ELSE IF Extends[c] # None THEN StaticConnection(own, Extends[c])
    ELSE None

ClsIdle ==
    [own |-> [c \in Classes |-> None],
     op |-> "none", on |-> None, arg |-> None, value |-> None]

\* C.bindConnection(k) and C.bind(k) on a class C
ClassBindConnection ==
    \E c \in Classes, k \in Conns, op \in BindOps :
        /\ cls' = [cls EXCEPT !.own[BindingTarget(c)] = BindConnectionField(@, k),
                              !.op = op, !.on = c, !.arg = k, !.value = None]
        /\ UNCHANGED <<facadeVars, pg, dx, ob, bu>>

\* C.getConnection() on a class C
ClassGetConnection ==
    \E c \in Classes, f \in Conns :
        /\ cls' = [cls EXCEPT
                     !.op = "getConnection", !.on = c, !.arg = None,
                     !.value = GetConnection(StaticConnection(cls.own, c),
                                             HasResolver(c), f).value]
        /\ UNCHANGED <<facadeVars, pg, dx, ob, bu>>

----------------------------------------------------------------------------
NoCall ==
    [op |-> "none", trx |-> None, id |-> 0, conn |-> "notcalled",
     viaResolver |-> FALSE, outcome |-> "returned", error |-> None,
     stmts |-> <<>>, result |-> Null]

FacadeInit ==
    /\ resolver \in BOOLEAN
    /\ connection = None
    /\ boundArg = None
    /\ resolverCalls = 0
    /\ resolved = None
    /\ table \in SUBSET Ids
    /\ call = NoCall

Init == FacadeInit /\ pg = PgIdle /\ dx = DxIdle /\ ob = ObIdle /\ bu = BuIdle /\ cls = ClsIdle

Next ==
    \/ BindConnection \/ Bind
    \/ GetConnectionCall \/ QueryBuilderCall
    \/ Find \/ FindFirst \/ FindById \/ FindByIdOrFail
    \/ FindWithPageAndSort \/ Count
    \/ Insert \/ UpdateById \/ Update \/ DeleteById \/ Delete
    \/ Query \/ Transaction \/ BatchInsert
    \/ GetValue \/ Check \/ GetJson \/ Invoke \/ Exec
    \/ ExecFind \/ ExecFindFirst \/ ExecInsert \/ ExecUpdate \/ ExecRemove
    \/ ExecQuery \/ ExecBatchInsert
    \/ ExecGet \/ ExecGetById \/ ExecFindOrThrow

vars == <<facadeVars, pg, dx, ob, bu, cls>>

Spec == Init /\ [][Next]_vars

\* The pagination engine on its own: a model on which nothing is called.
PageInit ==
    /\ resolver = FALSE
    /\ connection = None
    /\ boundArg = None
    /\ resolverCalls = 0
    /\ resolved = None
    /\ table = {}
    /\ call = NoCall
    /\ pg = PgIdle
    /\ dx = DxIdle
    /\ ob = ObIdle
    /\ bu = BuIdle
    /\ cls = ClsIdle

PageNext ==
    \/ PaginateCall \/ CountResolved \/ CountRejected
    \/ RowsResolved \/ RowsRejected
    \/ FindWithPageAndSortQuery
    \/ BuilderCall \/ BuilderCountResolved \/ BuilderCountRejected
    \/ BuilderRowsResolved \/ BuilderRowsRejected

SpecPage == PageInit /\ [][PageNext]_vars

\* The data of one executor call, on a model on which nothing else is called.
DataNext ==
    \/ UpdateDbTs \/ UpdateAsGiven \/ UpdateWhereCall \/ UpdateByIdCall
    \/ UpdateEarly
    \/ FindDbTs \/ FindAsGiven \/ FindAllCall
    \/ InsertDbTs \/ InsertAsGiven \/ InsertRowsCall
    \/ RemoveDbTs \/ RemoveAsGiven
    \/ QueryDbTs \/ QueryRowsCall
    \/ BatchInsertRowsCall \/ BatchInsertAsGiven \/ BatchInsertEarly
    \/ BatchInsertModel
    \/ InvokeCall \/ ExecCall

SpecData == PageInit /\ [][DataNext]_vars

\* The object utilities on their own.
ObjectNext == ToCamelCaseCall \/ ToSnakeCaseCall \/ IsPartiallyEqualCall

SpecObject == PageInit /\ [][ObjectNext]_vars

\* batchUpdateViaQuery on its own.  The transaction settles every statement it
\* is given and the event loop resumes what awaits it.
BatchNext == BatchUpdateViaQueryCall \/ RawResolved \/ RawRejected

SpecBatch == PageInit /\ [][BatchNext]_vars /\ WF_vars(BatchNext)

\* The model classes on their own.
ClassNext == ClassBindConnection \/ ClassGetConnection

SpecClasses == PageInit /\ [][ClassNext]_vars

----------------------------------------------------------------------------
(* The binding of the connection                                           *)

\* A step in which a facade operation evaluated this.getConnection().
ResolvingStep == call'.op \in FacadeOps /\ call'.conn # "notcalled"

\* C1: binding is sticky.  Once bindConnection(c) or bind(c) has been called,
\* every facade call that asks for the connection gets c, the argument of the
\* latest binding, and the resolver is not invoked; while nothing has been
\* bound, every such call on a model with a resolver invokes the resolver once
\* more and gets what that invocation returned.
C1_StickyBinding ==
    [][ResolvingStep =>
          IF boundArg # None
              THEN /\ call'.conn = boundArg
                   /\ ~call'.viaResolver
                   /\ resolverCalls' = resolverCalls
              ELSE resolver =>
                   /\ call'.viaResolver
                   /\ resolverCalls' = resolverCalls + 1
                   /\ call'.conn = resolved']_vars

\* A model with a resolver that was used, then bound, then queried: the query
\* ran on the bound connection although the resolver last returned another.
C1_Witness ==
    /\ resolver /\ resolverCalls > 0 /\ boundArg = "c2" /\ resolved = "c1"
    /\ call.op = "find" /\ call.conn = "c2" /\ ~call.viaResolver

\* C2 as stated: on a model with nothing bound and no resolver every facade
\* operation throws the connection-unresolved error synchronously and issues
\* nothing.
C2_AlwaysThrowsSynchronously ==
    (call.op \in FacadeOps /\ ~resolver /\ connection = None) =>
        /\ call.outcome = "threw"
        /\ call.error = ConnectionUnresolved
        /\ call.stmts = <<>>

\* C2, amended: on a model with nothing bound and no resolver every facade
\* operation except invoke and exec called with a transaction ends in the
\* connection-unresolved error with no statement built or issued; the error
\* is thrown synchronously, except by findFirst, whose promise is rejected
\* with it.
C2_UnresolvedFailsBeforeAnyQuery ==
    (/\ call.op \in FacadeOps /\ ~resolver /\ connection = None
     /\ ~(call.op \in {"invoke", "exec"} /\ call.trx # None)) =>
        /\ call.error = ConnectionUnresolved
        /\ call.stmts = <<>>
        /\ call.result = Null
        /\ call.outcome = IF call.op = "findFirst" THEN "rejected" ELSE "threw"

\* update() with a transaction on a model that resolves nothing: it threw.
C2_Witness ==
    /\ ~resolver /\ connection = None
    /\ call.op = "update" /\ call.trx = "t1" /\ call.outcome = "threw"
    /\ call.error = ConnectionUnresolved

\* C3: the binding only goes from unbound to bound and from bound to bound:
\* a bound model never becomes unbound, and the bound connection changes only
\* in a bindConnection / bind step, to the connection that step was given.
C3_BindingLifecycle ==
    [][/\ connection # None => connection' # None
       /\ connection' # connection =>
             call'.op \in BindOps /\ connection' = boundArg']_vars

\* A model that resolved through its resolver, was bound, and then ran a
\* transaction: the binding is still the one that was bound.
C3_Witness ==
    /\ resolverCalls > 0 /\ connection = "c2" /\ boundArg = "c2"
    /\ call.op = "transaction" /\ call.outcome = "returned"

----------------------------------------------------------------------------
(* Transactions                                                            *)

\* The execution context the executor is to use: the transaction if one was
\* supplied, the base connection otherwise.
ExpectedContext(c) == IF c.trx # None THEN c.trx ELSE c.conn

\* C4: every statement of an executor call runs on the transaction if one is
\* supplied and on the base connection otherwise, the schema-introspection
\* check of update included.
C4_TransactionOverride ==
    call.op \in ExecutorOps =>
        \A i \in DOMAIN call.stmts : call.stmts[i].ctx = ExpectedContext(call)

\* The facade operations C5 names as accepting a transaction.
C5_Ops ==
    {"find", "findFirst", "findById", "findWithPageAndSort", "count", "insert",
     "update", "delete", "query", "batchInsert"}

\* C5: the query of a facade operation that was handed a transaction runs on
\* that transaction, and a facade operation handed none runs on no
\* transaction.  (The query is what the operation is for: update's
\* introspection check, which C4 is about, is left out here.)
C5_TransactionThreaded ==
    (call.op \in FacadeOps /\ call.outcome = "returned") =>
        \A i \in DOMAIN call.stmts :
            call.stmts[i].kind # "hasColumn" =>
                /\ (call.op \in C5_Ops /\ call.trx # None) =>
                        call.stmts[i].ctx = call.trx
                /\ call.trx = None => call.stmts[i].ctx \notin Trxs

----------------------------------------------------------------------------
(* Lookups by id                                                           *)

\* C6: for an id without a row getById returns null and findById raises
\* ModelNotFound; for an id with a row both return the row.
C6_GetByIdFindById ==
    /\ call.op = "db.getById" =>
          /\ call.outcome = "returned"
          /\ call.result = IF call.id \in table THEN Some(call.id) ELSE Null
    /\ (call.op = "findById" /\ call.error # ConnectionUnresolved) =>
          IF call.id \in table
              THEN call.outcome = "returned" /\ call.result = Some(call.id)
              ELSE call.outcome # "returned" /\ call.error = ModelNotFound

----------------------------------------------------------------------------
(* Pagination                                                              *)

\* The least k with k * m >= n: the ceiling of n / m, for n >= 0 and m >= 1.
CeilingOf(n, m) == CHOOSE k \in 0..n : k * m >= n /\ (k = 0 \/ (k - 1) * m < n)

\* C7: in every pagination result pages.first = 1 and pages.last =
\* ceil(totalCount / maxRows), and pages.last >= 1 even for totalCount = 0.
C7_FirstAndLast ==
    pg.result # Null =>
        LET r == Val(pg.result)
        IN  /\ r.pages.first = 1
            /\ r.pages.last = CeilingOf(r.totalCount, r.maxRows)
            /\ r.pages.last >= 1

\* C8: in every pagination result pages.prev is null for current <= 1 and
\* current - 1 otherwise, and pages.next is null for current >= last and
\* current + 1 otherwise.
C8_PrevAndNext ==
    pg.result # Null =>
        LET w == Val(pg.result).pages
        IN  /\ w.prev = IF w.current <= 1 THEN Null ELSE Some(w.current - 1)
            /\ w.next = IF w.current >= w.last THEN Null ELSE Some(w.current + 1)

\* The page size and the page a call asked for, resolved as C9 says: 10 when
\* maxRows is not given, page 1 when the page is missing or below 1.
C9_MaxRows == IF pg.maxRows = Null THEN 10 ELSE Val(pg.maxRows)
C9_Page ==
    IF pg.currentPage = Null \/ Val(pg.currentPage) < 1
        THEN 1 ELSE Val(pg.currentPage)

\* C9: every window requested, by the raw-text strategy and by the builder
\* strategy, has limit = maxRows and offset = (currentPage - 1) * maxRows of
\* the resolved values, so never a negative offset.  (A maxRows of 0 is no
\* page size: the claim is about sizes above 0 and about an absent size.)
C9_Window ==
    pg.maxRows # Some(0) =>
        \A i \in DOMAIN pg.log :
            (pg.log[i].ev = "issue" /\ pg.log[i].sql = "window") =>
                /\ pg.log[i].limit = C9_MaxRows
                /\ pg.log[i].offset = (C9_Page - 1) * C9_MaxRows
                /\ pg.log[i].offset >= 0

\* C10: in the raw-text strategy the count query is issued first, with the
\* caller's boundParams; the windowed query is issued only after the count
\* query completed, with the same boundParams; and once the count query has
\* failed no windowed query is issued.
C10_CountThenWindow ==
    pg.strategy = "raw" =>
        /\ pg.log # <<>>
        /\ pg.log[1].ev = "issue" /\ pg.log[1].sql = "count"
        /\ pg.log[1].bound = pg.boundParams
        /\ \A j \in DOMAIN pg.log :
              (pg.log[j].ev = "issue" /\ pg.log[j].sql = "window") =>
                  /\ \E i \in 1..(j - 1) :
                        pg.log[i].ev = "ok" /\ pg.log[i].sql = "count"
                  /\ pg.log[j].bound = pg.log[1].bound
                  /\ \A i \in DOMAIN pg.log :
                        ~(pg.log[i].ev = "fail" /\ pg.log[i].sql = "count")
        /\ (\E i \in DOMAIN pg.log :
                pg.log[i].ev = "fail" /\ pg.log[i].sql = "count") =>
              pg.pc = "failed" /\ pg.result = Null

\* A raw-text pagination with bound parameters that ran both queries.
C10_Witness ==
    /\ pg.strategy = "raw" /\ pg.pc = "done" /\ pg.boundParams = "p1"
    /\ Len(pg.log) = 4 /\ pg.log[3].sql = "window" /\ pg.log[3].bound = "p1"

\* A raw-text pagination whose count query failed: it stopped there.
C10_WitnessFailed ==
    /\ pg.strategy = "raw" /\ pg.pc = "failed" /\ Len(pg.log) = 2
    /\ pg.log[2].ev = "fail" /\ pg.log[2].sql = "count"

\* C11: in the raw-text strategy the windowed SQL is the base query, then,
\* when hasOrderBy is false or absent, a default ORDER BY on the primary key
\* of the table read, then the offset/fetch clause; with hasOrderBy true no
\* ORDER BY is appended.
C11_WindowedSql ==
    (pg.strategy = "raw" /\ pg.windowSql # Null) =>
        LET w == Val(pg.windowSql)
        IN  /\ w.base = "query"
            /\ w.orderBy = IF pg.hasOrderBy = Some(TRUE)
                               THEN Null ELSE Some(pg.primaryKey)
            /\ w.offset = pg.offset /\ w.limit = pg.limit

\* C12: for the same totalCount, maxRows and currentPage the raw-text
\* strategy (paginate) and the builder strategy (buildPages) return the same
\* page window {first, prev, current, next, last}.  Stated on every result
\* either strategy returned for a page from 1 on.
C12_SamePageWindow ==
    (pg.result # Null /\ Val(pg.result).pages.current >= 1) =>
        LET r == Val(pg.result)
            raw == PaginatePages(
                       [PaginateBegin(Some(r.maxRows), Some(r.pages.current), None)
                            EXCEPT !.totalCount = r.totalCount])
            builder == BuildPages(r.pages.current, r.maxRows, r.totalCount)
        IN  raw = builder

\* The ordering C13 and C14 expect of the paged query: the sort fields in their
\* sequence when there are any, the default ordering otherwise.
ExpectedOrder(sortParams, defaultOrderBy) ==
    IF sortParams # Null /\ Val(sortParams) # <<>>
        THEN Val(sortParams) ELSE defaultOrderBy

\* C13: in the builder strategy the count is issued on a clone of the base
\* query, with the projection and the ordering stripped and no offset or limit,
\* so totalCount is the number of rows that match the predicate whatever page
\* is asked for; and the original query keeps its projection, its ordering and
\* its predicate.
C13_CountOnClone ==
    pg.strategy = "builderCount" =>
        LET counted == pg.qbs[pg.countQb]
            original == pg.qbs[pg.qb]
        IN  /\ pg.countQb # pg.qb
            /\ counted.select = <<"count(*)">> /\ counted.order = <<>>
            /\ counted.offset = Null /\ counted.limit = Null
            /\ counted.where = "params"
            /\ original.select = <<"*">> /\ original.where = "params"
            /\ original.order = ExpectedOrder(pg.sortParams, pg.defaultOrderBy)
            /\ pg.pc \in {"awaitRows", "done"} => pg.totalCount = pg.matching

\* A later page of a sorted builder pagination over a non-empty match.
C13_Witness ==
    /\ pg.strategy = "builderCount" /\ pg.pc = "done"
    /\ pg.page = 3 /\ pg.matching = 7 /\ pg.totalCount = 7
    /\ pg.sortParams # Null /\ Len(Val(pg.sortParams)) = 2
    /\ pg.qbs[pg.qb].offset = Some(2 * pg.limit)

\* C14: the final ordering of a paged builder query is the caller's sort
\* fields in their sequence when there are any (the default ordering cleared),
\* and the default ordering, as find applied it in its sequence, when the sort
\* fields are empty or absent.
C14_Ordering ==
    pg.strategy \in {"builder", "builderCount"} =>
        pg.qbs[pg.qb].order =
            ExpectedOrder(pg.sortParams,
                          IF pg.strategy = "builder"
                              THEN <<OrderEntry("id", "asc")>>
                              ELSE pg.defaultOrderBy)

----------------------------------------------------------------------------
(* The data of an update                                                   *)

\* The data of the write an update call issued, and its introspection checks.
UpdateWrite == dx.stmts[Len(dx.stmts)].data[1]
Introspections == {i \in DOMAIN dx.stmts : dx.stmts[i].kind = "hasColumn"}
\* The caller's data sets the tracked timestamp column.
Supplies(params) == \E f \in params : f.k \in {UpdatedAt, UpdatedAtColumn}
Supplied(params) ==
    (CHOOSE f \in params : f.k \in {UpdatedAt, UpdatedAtColumn}).v

\* C15: an update on a table with the tracked timestamp column, with data that
\* does not set it, writes the caller's fields and a freshly generated
\* timestamp; on a table without the column it writes the caller's fields
\* only; and the introspection check is made exactly once per update call.
\* (The caller's fields are compared under their column names.)
C15_FreshTimestamp ==
    dx.op = "update" =>
        /\ Cardinality(Introspections) = 1
        /\ (dx.exists /\ ~Supplies(dx.params)) =>
              /\ Field(UpdatedAtColumn, Now) \in UpdateWrite
              /\ ToSnakeCase(UpdateWrite \ {Field(UpdatedAtColumn, Now)})
                    = ToSnakeCase(dx.params)
        /\ ~dx.exists => ToSnakeCase(UpdateWrite) = ToSnakeCase(dx.params)

\* C16: an update on a table with the tracked timestamp column, with data that
\* supplies a value for it, writes that column with exactly the caller's
\* value: no generated timestamp replaces it.
C16_SuppliedTimestamp ==
    (dx.op = "update" /\ dx.exists /\ Supplies(dx.params)) =>
        {f \in UpdateWrite : f.k = UpdatedAtColumn}
            = {Field(UpdatedAtColumn, Supplied(dx.params))}

\* A key in storage naming has no capital, one in external naming no
\* underscore.
IsSnakeKey(k) == \A i \in DOMAIN k : k[i] \notin Upper
IsCamelKey(k) == \A i \in DOMAIN k : k[i] # "_"

\* C17: in every executor operation (find, insert, update, remove,
\* batchInsert, raw query) the predicate and the written data reach the
\* connection with snake_case keys, and the rows handed back to the caller have
\* camelCase keys.
C17_BoundaryNormalization ==
    dx.op \in {"find", "insert", "update", "remove", "batchInsert", "query"} =>
        /\ \A i \in DOMAIN dx.stmts :
              /\ \A f \in dx.stmts[i].where : IsSnakeKey(f.k)
              /\ \A j \in DOMAIN dx.stmts[i].data :
                    \A f \in dx.stmts[i].data[j] : IsSnakeKey(f.k)
        /\ \A i \in DOMAIN dx.result : \A f \in dx.result[i] : IsCamelKey(f.k)

\* The value row i of a batch holds, and the values of a sequence of rows.
RowValue(row) == (CHOOSE f \in row : TRUE).v
RowValues(rows) == [i \in 1..Len(rows) |-> RowValue(rows[i])]
RECURSIVE Flatten(_)
Flatten(seqs) == IF seqs = <<>> THEN <<>> ELSE Head(seqs) \o Flatten(Tail(seqs))

Trimmed(name) ==
    LET solid == {i \in DOMAIN name : name[i] # " "}
    IN  IF solid = {} THEN <<>>
        ELSE SubSeq(name,
                    CHOOSE i \in solid : \A j \in solid : i <= j,
                    CHOOSE i \in solid : \A j \in solid : i >= j)
\* ':' + key of the i-th key, and the separator before every key but the first.
BindingExpr(keys) ==
    Flatten([i \in 1..Len(keys) |->
                (IF i = 1 THEN <<>> ELSE <<",", " ">>) \o <<":">> \o keys[i]])
KeysOf(params) ==
    IF params = Null THEN <<>>
    ELSE [i \in 1..Len(Val(params)) |-> Val(params)[i].k]

\* C20: invoke issues SELECT <name>(<expr>) and exec issues EXEC <name> <expr>,
\* <name> the trimmed object name and <expr> the keys of the parameter map in
\* its order, each as ':' + key, joined by ', ' (empty without params); the
\* same map is passed as the bindings.
C20_ProcSql ==
    (dx.op \in {"invoke", "exec"} /\ dx.pc = "done") =>
        LET name == Trimmed(dx.objectName)
            expr == BindingExpr(KeysOf(dx.bound))
        IN  /\ Len(dx.raw) = 1
            /\ dx.raw[1].sql =
                  IF dx.op = "invoke"
                      THEN <<"SELECT", " ">> \o name \o <<"(">> \o expr \o <<")">>
                      ELSE <<"EXEC", " ">> \o name \o <<" ">> \o expr
            /\ dx.raw[1].bindings = dx.bound

\* An invoke of a name with blanks around it and two parameters, b before a.
C20_Witness ==
    /\ dx.op = "invoke" /\ dx.pc = "done"
    /\ dx.objectName = <<" ", "f", "g", " ">>
    /\ dx.bound = Some(<<Field(<<"b">>, 2), Field(<<"a">>, 1)>>)
    /\ dx.raw[1].sql = <<"SELECT", " ", "f", "g", "(", ":", "b", ",", " ", ":", "a", ")">>

\* C21: invoke and exec with a name that is empty or all blanks fail with the
\* invalid-procedure-name error; no SQL text is built and no statement is issued.
C21_InvalidName ==
    (/\ dx.op \in {"invoke", "exec"}
     /\ \A i \in 1..Len(dx.objectName) : dx.objectName[i] = " ") =>
        /\ dx.pc = "rejected"
        /\ dx.error = InvalidName
        /\ dx.raw = <<>>
        /\ dx.stmts = <<>>

\* An exec of a name of one blank, with parameters, has been rejected.
C21_Witness ==
    /\ dx.op = "exec" /\ dx.pc = "rejected"
    /\ dx.objectName = <<" ">>
    /\ dx.bound # Null
    /\ dx.error = InvalidName

\* C22: a statement that fails on the connection fails the operation with that
\* same error: the call has settled as a failure carrying the underlying error,
\* and the failed statement is the last one issued (nothing is issued again).
C22_FailurePropagates ==
    \A i \in DOMAIN pg.log :
        pg.log[i].ev = "fail" =>
            /\ pg.pc = "failed"
            /\ pg.error = "underlying"
            /\ i = Len(pg.log)

\* Structural equality of two values: the fields of a mapping in any order.
RECURSIVE Equal(_, _)
Equal(x, y) ==
    /\ x.t = y.t
    /\ Len(x.v) = Len(y.v)
    /\ CASE x.t = "map" ->
                \A i \in 1..Len(x.v) :
                    \E j \in 1..Len(y.v) :
                        x.v[i].k = y.v[j].k /\ Equal(x.v[i].v, y.v[j].v)
         [] x.t = "seq" -> \A i \in 1..Len(x.v) : Equal(x.v[i], y.v[i])
         [] OTHER -> x.v = y.v

\* No key of the value, at any depth, holds a separator, and neither does the
\* value itself where it is a string.
RECURSIVE CamelKeys(_)
CamelKeys(x) ==
    LET plain(str) == \A i \in 1..Len(str) : str[i] # "_"
    IN  CASE x.t = "map" ->
                \A i \in 1..Len(x.v) : plain(x.v[i].k) /\ CamelKeys(x.v[i].v)
          [] x.t = "seq" -> \A i \in 1..Len(x.v) : CamelKeys(x.v[i])
          [] OTHER -> TRUE

C24_Idempotent ==
    (Len(ob.steps) = 2 /\ ob.steps[1] = ob.steps[2]) => Equal(ob.ys[2], ob.ys[1])

\* y is x with every key of every mapping, at every depth, renamed to the
\* convention of `fn`: the same structure, the same order, the same values.
RECURSIVE Renamed(_, _, _)
Renamed(fn, x, y) ==
    LET inConvention(key) ==
            \A i \in 1..Len(key) :
                IF fn = "toCamelCase" THEN key[i] # "_" ELSE key[i] \notin Upper
        renamed(key) == IF fn = "toCamelCase" THEN CamelCase(key) ELSE SnakeCase(key)
    IN  /\ y.t = x.t
        /\ Len(y.v) = Len(x.v)
        /\ CASE x.t = "map" ->
                    \A i \in 1..Len(x.v) :
                        /\ y.v[i].k = renamed(x.v[i].k)
                        /\ inConvention(y.v[i].k)
                        /\ Renamed(fn, x.v[i].v, y.v[i].v)
             [] x.t = "seq" -> \A i \in 1..Len(x.v) : Renamed(fn, x.v[i], y.v[i])
             [] OTHER -> y.v = x.v

\* C25: toCamelCase and toSnakeCase rename every key at every depth to their
\* convention and keep the structure, the order and the values; a value that
\* is neither a mapping nor a sequence comes back unchanged.
C25_RenamesEveryKey ==
    Len(ob.steps) >= 1 => Renamed(ob.steps[1], ob.x, ob.ys[1])

\* Every key of x is a key of y, with an equal value.
SubsetOf(x, y) ==
    \A i \in 1..Len(x.v) :
        \E j \in 1..Len(y.v) : x.v[i].k = y.v[j].k /\ Equal(x.v[i].v, y.v[j].v)

\* C26: isPartiallyEqual(a, b) of two objects is true exactly when one of them
\* is a subset of the other, and it is false when a or b is not an object.
C26_PartiallyEqual ==
    ob.op = "isPartiallyEqual" =>
        /\ (ob.a.t = "map" /\ ob.b.t = "map") =>
              (ob.equal <=> (SubsetOf(ob.a, ob.b) \/ SubsetOf(ob.b, ob.a)))
        /\ (ob.a.t \in {"null", "num", "str"} \/ ob.b.t \in {"null", "num", "str"}) =>
              ~ob.equal

\* The executions batchUpdateViaQuery has issued so far.
Issued == {i \in DOMAIN bu.log : bu.log[i].ev = "issue"}

\* What C27 says of every state of a batchUpdateViaQuery call.
C27_Safe ==
    LET expected == CeilingOf(bu.dataSize, bu.batchSize)
    IN  bu.pc # "idle" =>
            /\ Cardinality(Issued) <= expected
            /\ \A i \in DOMAIN bu.log : bu.log[i].bound = bu.batchSize
            /\ \A i \in Issued :
                  i > 1 => bu.log[i - 1].ev = "ok"
            /\ bu.pc = "done" =>
                  /\ Cardinality(Issued) = expected
                  /\ Len(bu.log) = 2 * expected
                  /\ bu.error = None
            /\ \A i \in DOMAIN bu.log :
                  bu.log[i].ev = "fail" =>
                      /\ i = Len(bu.log)
                      /\ bu.pc = "failed" /\ bu.error = "underlying"

\* C27: batchUpdateViaQuery executes the query ceil(dataSize / batchSize)
\* times, each time bound with {batchSize}, one execution only after the one
\* before it completed, and then ends; after a failed execution nothing more
\* is issued and the call fails with that error.  Every call comes to an end.
C27_BatchUpdate ==
    /\ []C27_Safe
    /\ <>(bu.pc \in {"done", "failed"})

\* A call with dataSize 5 and batchSize 2 has ended after three executions.
C27_Witness ==
    /\ bu.pc = "done" /\ bu.dataSize = 5 /\ bu.batchSize = 2
    /\ Cardinality(Issued) = 3

\* C28: in every pagination result first <= current <= last, a prev that is
\* not null is a page from 1 up to below current, and a next that is not null
\* is a page from above current up to last.
C28_PageRange ==
    (pg.result # Null /\ Val(pg.result).maxRows >= 1) =>
        LET w == Val(pg.result).pages
        IN  /\ w.first <= w.current /\ w.current <= w.last
            /\ w.prev # Null => (1 <= Val(w.prev) /\ Val(w.prev) < w.current)
            /\ w.next # Null => (w.current < Val(w.next) /\ Val(w.next) <= w.last)

\* C29: on a model with nothing bound and no resolver, a facade operation
\* handed a transaction still fails with the connection-unresolved error and
\* issues nothing, on the transaction or elsewhere; only invoke and exec run,
\* on the transaction, and resolve no connection.
C29_TransactionNeedsConnection ==
    (/\ call.op \in TrxOps /\ call.trx # None
     /\ ~resolver /\ connection = None) =>
        IF call.op \in {"invoke", "exec"}
            THEN /\ call.error = None
                 /\ call.conn = "notcalled"
                 /\ ~call.viaResolver
                 /\ call.stmts # <<>>
                 /\ \A i \in DOMAIN call.stmts : call.stmts[i].ctx = call.trx
            ELSE /\ call.error = ConnectionUnresolved
                 /\ call.stmts = <<>>

\* insert() with a transaction on a model that resolves nothing has failed.
C29_Witness ==
    /\ ~resolver /\ connection = None
    /\ call.op = "insert" /\ call.trx = "t1"
    /\ call.error = ConnectionUnresolved /\ call.stmts = <<>>

\* The classes c extends, directly or not.
RECURSIVE Ancestors(_)
Ancestors(c) ==
    IF Extends[c] = None THEN {} ELSE {Extends[c]} \cup Ancestors(Extends[c])

\* What getConnection() called on class c returns for its bound connection.
BoundFor(own, c) ==
    IF own[c] # None THEN own[c]
    ELSE IF \E a \in Ancestors(c) : own[a] # None
        THEN own[CHOOSE a \in Ancestors(c) :
                    /\ own[a] # None
                    /\ \A b \in Ancestors(c) : own[b] # None => b \in {a} \cup Ancestors(a)]
        ELSE None

\* C30, the frame of a binding: a bindConnection / bind on class c leaves
\* what every class resolves to as it was, except for c and the classes that
\* extend c; so neither the base of c, nor a sibling, nor a class of another
\* base model is touched.
C30_Frame ==
    (cls'.op \in BindOps /\ cls' # cls) =>
        \A d \in Classes :
            (d # cls'.on /\ cls'.on \notin Ancestors(d)) =>
                /\ BoundFor(cls'.own, d) = BoundFor(cls.own, d)
                /\ cls'.own[d] = cls.own[d]

\* C30, the inheritance: getConnection() on a class that was not itself bound
\* returns the connection bound on the nearest class it extends that was.
C30_Inherits ==
    (/\ cls.op = "getConnection"
     /\ cls.own[cls.on] = None
     /\ \E a \in Ancestors(cls.on) : cls.own[a] # None) =>
        cls.value = BoundFor(cls.own, cls.on)

\* C30: bindings are isolated between a model class, its base, its siblings
\* and the classes of other base models, and an unbound class resolves to the
\* connection bound on its base.
C30_BindingIsolation == [][C30_Frame]_vars /\ []C30_Inherits

\* Model is bound to c1 and User to c2; Post, which was never bound, was
\* asked for its connection and returned c1.
C30_Witness ==
    /\ cls.own["Model"] = "c1" /\ cls.own["User"] = "c2"
    /\ cls.own["Post"] = None /\ cls.own["Other"] = None
    /\ cls.op = "getConnection" /\ cls.on = "Post" /\ cls.value = "c1"

====
